---- MODULE Spec2Model ----
(***************************************************************************)
(* Model of src/main.py: the Streamlit trip planner.  One script run is    *)
(* the sequence  widgets -> button -> get_weather -> get_flight_options -> *)
(* prompt -> model call -> display -> PDF export.                          *)
(*                                                                         *)
(* Text is a sequence of characters.  A literal of the source is kept as   *)
(* one element (one string holding the literal's text, emoji spelled in    *)
(* ASCII); data that comes from outside (the destination, JSON values, the *)
(* generated text) is one element per character.  The characters of the    *)
(* data alphabet (z, Z, the two braces, x and the line break) occur in no  *)
(* literal of the source, so "is a substring of" on these sequences agrees *)
(* with the same question on the program's strings.  The line breaks of    *)
(* the prompt literal are written as spaces.                               *)
(***************************************************************************)
EXTENDS Integers, Sequences, FiniteSets, TLC

VARIABLES
    pc,               \* position of the script run
    groq_api_key,     \* line 91
    amadeus_api_key,  \* line 92
    destination,      \* line 95
    days,             \* line 96
    budget,           \* line 98
    interests,        \* line 104
    pressed,          \* value of st.button("Plan My Trip") in this run
    itinerary_text,   \* line 110 / 149
    geo_res,          \* line 17
    coords,           \* lines 22-23: TRUE once lat/lon were read
    weather_res,      \* line 27
    weather_info,     \* line 119
    flight_res,       \* line 66
    flight_info,      \* line 120
    sent,             \* the human message handed to llm.invoke (line 148)
    response,         \* line 148
    calls,            \* network requests issued in this run, in order
    ui,               \* elements rendered on the page in this run, in order
    pdf_lines,        \* text.split("\n") (line 167)
    idx,              \* lines of pdf_lines already drawn
    y,                \* vertical cursor (line 166)
    pages,            \* pages emitted by showPage so far
    code,             \* TRUE when the current page holds drawing operators
    drawn,            \* drawString calls so far: page and cursor of each
    earlier           \* TRUE when a finished run of this session produced text

vars == <<pc, groq_api_key, amadeus_api_key, destination, days, budget,
          interests, pressed, itinerary_text, geo_res, coords, weather_res,
          weather_info, flight_res, flight_info, sent, response, calls, ui,
          pdf_lines, idx, y, pages, code, drawn, earlier>>

appVars == <<groq_api_key, amadeus_api_key, destination, days, budget,
             interests, pressed>>
toolVars == <<geo_res, coords, weather_res, weather_info, flight_res,
              flight_info>>
pdfVars == <<pdf_lines, idx, y, pages, code, drawn>>

----------------------------------------------------------------------------
(* Bounds of the model *)

MaxDestLen == 2
MaxLines == 72

----------------------------------------------------------------------------
(* Strings *)

EmptyText == <<>>

Contains(s, sub) ==
    \E i \in 0..(Len(s) - Len(sub)) : SubSeq(s, i + 1, i + Len(sub)) = sub

RECURSIVE Join(_, _)
Join(parts, sep) ==
    IF Len(parts) = 0 THEN EmptyText
    ELSE IF Len(parts) = 1 THEN parts[1]
    ELSE parts[1] \o sep \o Join(Tail(parts), sep)

UpperChar(c) == IF c = "z" THEN "Z" ELSE c

Upper(s) == [i \in 1..Len(s) |-> UpperChar(s[i])]

Digit(d) == <<"0", "1", "2", "3", "4", "5", "6", "7", "8", "9">>[d + 1]

RECURSIVE Str(_)
Str(n) == IF n < 10 THEN <<Digit(n)>> ELSE Str(n \div 10) \o <<Digit(n % 10)>>

\* index of the first line break of text at or after position s, Len(text)+1
\* when there is none
LineEnd(text, s) ==
    CHOOSE e \in s..(Len(text) + 1) :
        /\ e = Len(text) + 1 \/ text[e] = "\n"
        /\ \A j \in s..(e - 1) : text[j] # "\n"

\* text.split("\n"), the lines from position s on
RECURSIVE SplitFrom(_, _)
SplitFrom(text, s) ==
    IF LineEnd(text, s) > Len(text) THEN <<SubSeq(text, s, Len(text))>>
    ELSE <<SubSeq(text, s, LineEnd(text, s) - 1)>>
         \o SplitFrom(text, LineEnd(text, s) + 1)

Split(text) == SplitFrom(text, 1)

SeqsUpTo(S, n) == UNION {[1..k -> S] : k \in 0..n}

----------------------------------------------------------------------------
(* Inputs: what the widgets and the remote services can hand to the script *)

DestChars == {"z", "{", "}"}
Destinations == SeqsUpTo(DestChars, MaxDestLen)

NoKey == EmptyText
GroqKeys == {NoKey, <<"g">>}
AmadeusKeys == {NoKey, <<"a">>}
\* Python's None, the default of get_flight_options' second parameter
None == <<"None">>

MinDays == 1
MaxDays == 30
DayChoices == {MinDays, MaxDays}
Budgets == {"Low", "Medium", "High"}
DefaultInterests == <<"Nature", "Adventure">>
InterestChoices == {<<>>, DefaultInterests}

\* str(e) of what requests.get(...).json() raises (connection failure, body
\* that is not JSON)
TransportErrors == {<<"Expecting value: line 1 column 1 (char 0)">>}
IndexErrorMsg == <<"list index out of range">>
KeyErrorMsg(k) == <<"'", k, "'">>

\* str() of JSON values: a date, a number, a code, and an object where a
\* scalar was expected
DateValue == <<"2026-11-01">>
TempValue == <<"21.5">>
CodeValue == <<"DEL">>
PriceValue == <<"4500.00">>
ObjectValue == <<"{", "'k': 1", "}">>

\* A geocoding answer: the call raised, or a JSON object with the keys it
\* has and its "results" array (each entry with the keys it has)
GeoRaised(m) == [raised |-> TRUE, msg |-> m, keys |-> {}, results |-> <<>>]
GeoJson(k, r) == [raised |-> FALSE, msg |-> EmptyText, keys |-> k, results |-> r]
GeoMatch == {"latitude", "longitude"}
GeoResponses ==
    {GeoRaised(m) : m \in TransportErrors} \cup
    { GeoJson({}, <<>>),                      \* no "results" key
      GeoJson({"results"}, <<>>),             \* "results": []
      GeoJson({"results"}, <<{"longitude"}>>),\* entry without "latitude"
      GeoJson({"results"}, <<{"latitude"}>>), \* entry without "longitude"
      GeoJson({"results"}, <<GeoMatch>>) }
NoGeo == GeoJson({}, <<>>)

\* A forecast answer: the "daily" object with its three parallel arrays
FcRaised(m) ==
    [raised |-> TRUE, msg |-> m, keys |-> {}, dkeys |-> {},
     time |-> <<>>, tmax |-> <<>>, tmin |-> <<>>]
FcJson(k, dk, t, hi, lo) ==
    [raised |-> FALSE, msg |-> EmptyText, keys |-> k, dkeys |-> dk,
     time |-> t, tmax |-> hi, tmin |-> lo]
DailyKeys == {"time", "temperature_2m_max", "temperature_2m_min"}
ForecastResponses ==
    {FcRaised(m) : m \in TransportErrors} \cup
    { FcJson({}, {}, <<>>, <<>>, <<>>),                       \* no "daily"
      FcJson({"daily"}, {"temperature_2m_max"}, <<>>, <<>>, <<>>), \* no "time"
      FcJson({"daily"}, DailyKeys, <<>>, <<>>, <<>>),         \* zero days
      FcJson({"daily"}, DailyKeys, <<DateValue>>, <<TempValue>>, <<TempValue>>),
      FcJson({"daily"}, DailyKeys, <<DateValue, DateValue>>,
             <<TempValue, TempValue>>, <<TempValue, TempValue>>),
      FcJson({"daily"}, DailyKeys, <<DateValue, DateValue>>,
             <<TempValue>>, <<TempValue, TempValue>>),        \* short array
      FcJson({"daily"}, {"time", "temperature_2m_max"}, <<DateValue>>,
             <<TempValue>>, <<>>),                            \* no minima
      FcJson({"daily"}, DailyKeys, <<ObjectValue>>, <<TempValue>>,
             <<TempValue>>) }                                 \* object as date
NoForecast == FcJson({}, {}, <<>>, <<>>, <<>>)

\* A flight-offer answer: the "data" array of offers
Offer(ok, p, d, a) == [complete |-> ok, price |-> p, dep |-> d, arr |-> a]
GoodOffer == Offer(TRUE, PriceValue, CodeValue, <<"KUU">>)
FlRaised(m) == [raised |-> TRUE, msg |-> m, keys |-> {}, data |-> <<>>]
FlJson(k, d) == [raised |-> FALSE, msg |-> EmptyText, keys |-> k, data |-> d]
FlightResponses ==
    {FlRaised(m) : m \in TransportErrors} \cup
    { FlJson({}, <<>>),                          \* no "data" key
      FlJson({"data"}, <<>>),                    \* "data": []
      FlJson({"data"}, <<GoodOffer>>),
      FlJson({"data"}, <<GoodOffer, GoodOffer>>),
      FlJson({"data"}, <<GoodOffer, Offer(FALSE, EmptyText, EmptyText, EmptyText)>>),
      FlJson({"data"}, <<Offer(TRUE, ObjectValue, CodeValue, <<"KUU">>)>>) }
NoFlightRes == FlJson({}, <<>>)

\* The model's answer: the call raised, or response.content
LlmRaised(m) == [raised |-> TRUE, msg |-> m, content |-> EmptyText]
LlmText(t) == [raised |-> FALSE, msg |-> EmptyText, content |-> t]
ModelErrors == {<<"Invalid API Key">>}
ModelTexts == {EmptyText, <<"x">>, <<"x", "\n", "x">>, <<"x", "\n">>}
ModelResponses ==
    {LlmRaised(m) : m \in ModelErrors} \cup {LlmText(t) : t \in ModelTexts}
NoResponse == LlmText(EmptyText)

----------------------------------------------------------------------------
(* get_weather, lines 12-40 *)

WeatherNotFound(dest) ==
    <<"(globe) Weather info for ">> \o dest \o <<" not found.">>

WeatherError(msg) == <<"(x) Weather API error: ">> \o msg

HasResults(res) == "results" \in res.keys

\* lines 16-23 and their part of the handler of lines 39-40:
\* returned says whether get_weather is over, value what it returned
Geocode(dest, res) ==
    IF res.raised THEN [returned |-> TRUE, value |-> WeatherError(res.msg)]
    ELSE IF ~HasResults(res)
    THEN [returned |-> TRUE, value |-> WeatherNotFound(dest)]
    ELSE IF Len(res.results) = 0
    THEN [returned |-> TRUE, value |-> WeatherError(IndexErrorMsg)]
    ELSE IF "latitude" \notin res.results[1]
    THEN [returned |-> TRUE, value |-> WeatherError(KeyErrorMsg("latitude"))]
    ELSE IF "longitude" \notin res.results[1]
    THEN [returned |-> TRUE, value |-> WeatherError(KeyErrorMsg("longitude"))]
    ELSE [returned |-> FALSE, value |-> EmptyText]

DayLine(date, tmin, tmax) ==
    date \o <<": ">> \o tmin \o <<"*C - ">> \o tmax \o <<"*C">>

\* lines 31-35: the loop over the days, from day i on; temps is the list
\* built so far; raised says whether an access failed
RECURSIVE ForecastLoop(_, _, _)
ForecastLoop(res, i, temps) ==
    IF i > Len(res.time) THEN [raised |-> FALSE, value |-> temps]
    ELSE IF "temperature_2m_max" \notin res.dkeys
    THEN [raised |-> TRUE, value |-> KeyErrorMsg("temperature_2m_max")]
    ELSE IF i > Len(res.tmax) THEN [raised |-> TRUE, value |-> IndexErrorMsg]
    ELSE IF "temperature_2m_min" \notin res.dkeys
    THEN [raised |-> TRUE, value |-> KeyErrorMsg("temperature_2m_min")]
    ELSE IF i > Len(res.tmin) THEN [raised |-> TRUE, value |-> IndexErrorMsg]
    ELSE ForecastLoop(res, i + 1,
            Append(temps, DayLine(res.time[i], res.tmin[i], res.tmax[i])))

\* lines 27-37 and their part of the handler of lines 39-40
Forecast(res) ==
    IF res.raised THEN WeatherError(res.msg)
    ELSE IF "daily" \notin res.keys THEN WeatherError(KeyErrorMsg("daily"))
    ELSE IF "time" \notin res.dkeys THEN WeatherError(KeyErrorMsg("time"))
    ELSE LET r == ForecastLoop(res, 1, <<>>)
         IN  IF r.raised THEN WeatherError(r.value)
             ELSE Join(r.value, <<" | ">>)

get_weather(dest, geo, fc) ==
    IF Geocode(dest, geo).returned THEN Geocode(dest, geo).value
    ELSE Forecast(fc)

----------------------------------------------------------------------------
(* get_flight_options, lines 42-81 *)

MockMarker == <<"(Mock)">>

\* the mock quotes with the destination as typed
MockFlightsAsTyped(dest) ==
    << <<"(plane) DEL -> ">> \o dest \o <<" : Rs 4,500 ">> \o MockMarker,
       <<"(plane) BOM -> ">> \o dest \o <<" : Rs 5,200 ">> \o MockMarker >>

MockFlights(dest) ==
    << <<"(plane) DEL -> ">> \o Upper(dest) \o <<" : Rs 4,500 ">> \o MockMarker,
       <<"(plane) BOM -> ">> \o Upper(dest) \o <<" : Rs 5,200 ">> \o MockMarker >>

NoFlightsFound == << <<"No flights found.">> >>

FlightError(msg) == << <<"(x) Flight API error: ">> \o msg >>

FlightLine(f) == <<"(plane) ">> \o f.dep \o <<" -> ">> \o f.arr \o <<" : Rs ">> \o f.price

\* line 46
NoCredential(key) == key = None \/ key = EmptyText

\* line 68
HasData(res) == "data" \in res.keys

\* lines 71-77: the loop over the offers, from offer i on
RECURSIVE OfferLoop(_, _, _)
OfferLoop(res, i, flights) ==
    IF i > Len(res.data) THEN [raised |-> FALSE, value |-> flights]
    ELSE IF ~res.data[i].complete
    THEN [raised |-> TRUE, value |-> KeyErrorMsg("price")]
    ELSE OfferLoop(res, i + 1, Append(flights, FlightLine(res.data[i])))

\* lines 53-81, the branch taken with a credential
LiveFlights(res) ==
    IF res.raised THEN FlightError(res.msg)
    ELSE IF ~HasData(res) THEN NoFlightsFound
    ELSE LET r == OfferLoop(res, 1, <<>>)
         IN  IF r.raised THEN FlightError(r.value) ELSE r.value

get_flight_options(dest, key, res) ==
    IF NoCredential(key) THEN MockFlights(dest) ELSE LiveFlights(res)

----------------------------------------------------------------------------
(* Prompt, lines 123-148 *)

DefaultInterestsText == <<"general sightseeing">>

\* line 123
InterestsText(sel) ==
    IF Len(sel) = 0 THEN DefaultInterestsText
    ELSE Join([i \in 1..Len(sel) |-> <<sel[i]>>], <<", ">>)

\* line 135
FlightsText(flights) == Join(flights, <<", ">>)

\* lines 128-138: the f-string, evaluated by Python before the template
\* class sees it
HumanTemplate(d, dest, b, sel, weather, flights) ==
    <<"Plan a ">> \o Str(d) \o <<"-day trip to ">> \o dest
    \o <<". Budget: ">> \o <<b>>
    \o <<". Traveler interests: ">> \o InterestsText(sel)
    \o <<". IMPORTANT: 1. First, clearly display the WEATHER DATA provided: ">>
    \o weather
    \o <<". 2. Then, clearly display the FLIGHT OPTIONS provided: ">>
    \o FlightsText(flights)
    \o <<". 3. After that, suggest a day-by-day itinerary (activities, attractions, food, culture). Make sure weather and flight info are visible in the final answer.">>

IsBrace(c) == c = "{" \/ c = "}"

\* lines 126 and 148: ChatPromptTemplate reads the human text as an f-string
\* template and format_messages() fills it with no variables.  A doubled
\* brace is an escape for one brace; any other brace opens a replacement
\* field no variable fills, or is unbalanced: both raise.
RECURSIVE FormatFrom(_, _)
FormatFrom(t, i) ==
    IF i > Len(t) THEN [raised |-> FALSE, text |-> EmptyText]
    ELSE IF IsBrace(t[i])
    THEN IF i < Len(t) /\ t[i + 1] = t[i]
         THEN LET r == FormatFrom(t, i + 2)
              IN  [raised |-> r.raised,
                   text |-> IF r.raised THEN EmptyText ELSE <<t[i]>> \o r.text]
         ELSE [raised |-> TRUE, text |-> EmptyText]
    ELSE LET r == FormatFrom(t, i + 1)
         IN  [raised |-> r.raised,
              text |-> IF r.raised THEN EmptyText ELSE <<t[i]>> \o r.text]

format_messages(t) == FormatFrom(t, 1)

TemplateErrorMsg == <<"template variable missing or brace unbalanced">>

----------------------------------------------------------------------------
(* create_pdf, lines 160-177 *)

PageHeight == 792
TopMargin == 50
BottomMargin == 50
Pitch == 20

\* line 166 and line 173
TopOfPage == PageHeight - TopMargin

\* the cursor stepped by half the pitch
NextCursorHalfPitch(cur) == cur - 10

\* line 169
NextCursor(cur) == cur - Pitch

\* the page break taken at the paper's edge instead of the margin
NeedsNewPageAtEdge(cur) == cur < 0

\* line 170
NeedsNewPage(cur) == cur < BottomMargin

\* line 159
PdfGate(text) == text # EmptyText

ShortLines(n) ==
    [i \in 1..(IF n = 0 THEN 0 ELSE 2 * n - 1) |->
        IF i % 2 = 1 THEN "x" ELSE "\n"]
BlankLines(n) == [i \in 1..n |-> "\n"]
PdfTexts == {ShortLines(n) : n \in 0..MaxLines} \cup
            {BlankLines(n) : n \in 1..(MaxLines - 1)}

----------------------------------------------------------------------------
(* The script run *)

Element(k, t) == [kind |-> k, text |-> t]
KeyErrorElement ==
    Element("error", <<"(x) Please enter your Groq API key in the sidebar.">>)
ErrorElement(msg) == Element("error", <<"(x) Error: ">> \o msg)
DownloadElement(dest) == Element("download", dest \o <<"_itinerary.pdf">>)

Call(api) == [api |-> api]

\* the module-level name left as the run before bound it
GlobalStoreKept(prev) == prev

\* line 110
GlobalStore(prev) == EmptyText

\* the credential check that lets every key through
GroqKeyMissingNever(key) == FALSE

\* line 113
GroqKeyMissing(key) == key = EmptyText

\* the error message kept as the run's text
ItineraryIsErrorMsg(prev, msg) == msg

\* lines 148-156: the value of itinerary_text once llm.invoke raised; the
\* assignment of line 149 is not reached
ItineraryAfterError(prev, msg) == prev

Init ==
    /\ pc = "idle"
    /\ groq_api_key = NoKey
    /\ amadeus_api_key = NoKey
    /\ destination = EmptyText
    /\ days = MinDays
    /\ budget = "Medium"
    /\ interests = DefaultInterests
    /\ pressed = FALSE
    /\ itinerary_text = EmptyText
    /\ geo_res = NoGeo
    /\ coords = FALSE
    /\ weather_res = NoForecast
    /\ weather_info = EmptyText
    /\ flight_res = NoFlightRes
    /\ flight_info = <<>>
    /\ sent = EmptyText
    /\ response = NoResponse
    /\ calls = <<>>
    /\ ui = <<>>
    /\ pdf_lines = <<>>
    /\ idx = 0
    /\ y = 0
    /\ pages = 0
    /\ code = FALSE
    /\ drawn = <<>>
    /\ earlier = FALSE

\* lines 84-110: a script run starts; the widgets return their current
\* values and line 110 binds itinerary_text
ScriptStart ==
    /\ pc = "idle"
    /\ \E g \in GroqKeys, a \in AmadeusKeys, dest \in Destinations,
         d \in DayChoices, b \in Budgets, sel \in InterestChoices,
         click \in BOOLEAN :
          /\ groq_api_key' = g
          /\ amadeus_api_key' = a
          /\ destination' = dest
          /\ days' = d
          /\ budget' = b
          /\ interests' = sel
          /\ pressed' = click
    /\ itinerary_text' = GlobalStore(itinerary_text)
    /\ pc' = "button"
    /\ UNCHANGED <<earlier, toolVars, pdfVars, sent, response, calls, ui>>

\* line 112, button not pressed in this run
ButtonNotPressed ==
    /\ pc = "button"
    /\ ~pressed
    /\ pc' = "pdf_gate"
    /\ UNCHANGED <<earlier, appVars, toolVars, pdfVars, itinerary_text, sent, response,
                   calls, ui>>

\* lines 113-114
MissingGroqKey ==
    /\ pc = "button"
    /\ pressed
    /\ GroqKeyMissing(groq_api_key)
    /\ ui' = Append(ui, KeyErrorElement)
    /\ pc' = "pdf_gate"
    /\ UNCHANGED <<earlier, appVars, toolVars, pdfVars, itinerary_text, sent, response,
                   calls>>

\* lines 119, 16-23, 39-40: the geocoding request and what get_weather does
\* with its answer
GeocodeCall ==
    /\ pc = "button"
    /\ pressed
    /\ ~GroqKeyMissing(groq_api_key)
    /\ \E res \in GeoResponses :
          /\ geo_res' = res
          /\ calls' = Append(calls, Call("geocoding"))
          /\ IF Geocode(destination, res).returned
             THEN /\ weather_info' = Geocode(destination, res).value
                  /\ coords' = FALSE
                  /\ pc' = "flights"
             ELSE /\ weather_info' = weather_info
                  /\ coords' = TRUE
                  /\ pc' = "forecast"
    /\ UNCHANGED <<earlier, appVars, pdfVars, itinerary_text, weather_res, flight_res,
                   flight_info, sent, response, ui>>

\* lines 26-37, 39-40: the forecast request
ForecastCall ==
    /\ pc = "forecast"
    /\ \E res \in ForecastResponses :
          /\ weather_res' = res
          /\ calls' = Append(calls, Call("forecast"))
          /\ weather_info' = get_weather(destination, geo_res, res)
    /\ pc' = "flights"
    /\ UNCHANGED <<earlier, appVars, pdfVars, itinerary_text, geo_res, coords,
                   flight_res, flight_info, sent, response, ui>>

\* lines 120, 46-51: no credential, the mock quotes
MockFlightsStep ==
    /\ pc = "flights"
    /\ NoCredential(amadeus_api_key)
    /\ flight_info' = get_flight_options(destination, amadeus_api_key, flight_res)
    /\ pc' = "prompt"
    /\ UNCHANGED <<earlier, appVars, pdfVars, itinerary_text, geo_res, coords,
                   weather_res, weather_info, flight_res, sent, response,
                   calls, ui>>

\* lines 120, 53-81: the flight-offer request
FlightCall ==
    /\ pc = "flights"
    /\ ~NoCredential(amadeus_api_key)
    /\ \E res \in FlightResponses :
          /\ flight_res' = res
          /\ calls' = Append(calls, Call("flights"))
          /\ flight_info' =
                get_flight_options(destination, amadeus_api_key, res)
    /\ pc' = "prompt"
    /\ UNCHANGED <<earlier, appVars, pdfVars, itinerary_text, geo_res, coords,
                   weather_res, weather_info, sent, response, ui>>

Template ==
    HumanTemplate(days, destination, budget, interests, weather_info,
                  flight_info)

\* lines 123-148 up to the request, 155-156: the prompt is built and
\* formatted; an exception of the template class ends the try block
BuildPrompt ==
    /\ pc = "prompt"
    /\ IF format_messages(Template).raised
       THEN /\ ui' = Append(ui, ErrorElement(TemplateErrorMsg))
            /\ sent' = sent
            /\ pc' = "pdf_gate"
       ELSE /\ ui' = ui
            /\ sent' = format_messages(Template).text
            /\ pc' = "invoke"
    /\ UNCHANGED <<earlier, appVars, toolVars, pdfVars, itinerary_text, response,
                   calls>>

\* lines 148-156: the model request and what follows it inside the try
InvokeModel ==
    /\ pc = "invoke"
    /\ \E res \in ModelResponses :
          /\ response' = res
          /\ calls' = Append(calls, Call("model"))
          /\ IF res.raised
             THEN /\ itinerary_text' = ItineraryAfterError(itinerary_text, res.msg)
                  /\ ui' = Append(ui, ErrorElement(res.msg))
             ELSE /\ itinerary_text' = res.content
                  /\ ui' = ui \o <<Element("subheader", <<"Suggested Itinerary">>),
                                   Element("write", res.content)>>
    /\ pc' = "pdf_gate"
    /\ UNCHANGED <<earlier, appVars, toolVars, pdfVars, sent>>

\* line 159, text empty
PdfGateClosed ==
    /\ pc = "pdf_gate"
    /\ ~PdfGate(itinerary_text)
    /\ pc' = "done"
    /\ UNCHANGED <<earlier, appVars, toolVars, pdfVars, itinerary_text, sent, response,
                   calls, ui>>

\* lines 159, 179
PdfGateOpen ==
    /\ pc = "pdf_gate"
    /\ PdfGate(itinerary_text)
    /\ pc' = "create_pdf"
    /\ UNCHANGED <<earlier, appVars, toolVars, pdfVars, itinerary_text, sent, response,
                   calls, ui>>

\* lines 161-167: canvas, font, cursor at the top, the text split
CreatePdfBegin ==
    /\ pc = "create_pdf"
    /\ pdf_lines' = Split(itinerary_text)
    /\ idx' = 0
    /\ y' = TopOfPage
    /\ pages' = 0
    /\ code' = TRUE
    /\ drawn' = <<>>
    /\ pc' = "pdf_loop"
    /\ UNCHANGED <<earlier, appVars, toolVars, itinerary_text, sent, response, calls, ui>>

\* lines 167-173: one iteration of the loop
DrawLine ==
    /\ pc = "pdf_loop"
    /\ idx < Len(pdf_lines)
    /\ drawn' = Append(drawn, [page |-> pages + 1, y |-> y, line |-> idx + 1])
    /\ idx' = idx + 1
    /\ code' = TRUE
    /\ IF NeedsNewPage(NextCursor(y))
       THEN /\ pages' = pages + 1
            /\ y' = TopOfPage
       ELSE /\ pages' = pages
            /\ y' = NextCursor(y)
    /\ UNCHANGED <<pc, pdf_lines, earlier, appVars, toolVars, itinerary_text, sent,
                   response, calls, ui>>

\* lines 175-177: save() emits the page being built when it holds operators
PdfSave ==
    /\ pc = "pdf_loop"
    /\ idx = Len(pdf_lines)
    /\ pages' = IF code THEN pages + 1 ELSE pages
    /\ code' = FALSE
    /\ pc' = "pdf_saved"
    /\ UNCHANGED <<pdf_lines, idx, y, drawn, earlier, appVars, toolVars, itinerary_text,
                   sent, response, calls, ui>>

\* lines 179-186
DownloadButton ==
    /\ pc = "pdf_saved"
    /\ ui' = Append(ui, DownloadElement(destination))
    /\ pc' = "done"
    /\ UNCHANGED <<earlier, appVars, toolVars, pdfVars, itinerary_text, sent, response,
                   calls>>

\* A user interaction after the run: the page of the finished run is
\* dropped and the script is run again from its first line.  Nothing of the
\* finished run is handed to the next one by the framework; the value of the
\* module-level name is kept here, so that only line 110 separates the runs.
Rerun ==
    /\ pc = "done"
    /\ pc' = "idle"
    /\ groq_api_key' = NoKey
    /\ amadeus_api_key' = NoKey
    /\ destination' = EmptyText
    /\ days' = MinDays
    /\ budget' = "Medium"
    /\ interests' = DefaultInterests
    /\ pressed' = FALSE
    /\ geo_res' = NoGeo
    /\ coords' = FALSE
    /\ weather_res' = NoForecast
    /\ weather_info' = EmptyText
    /\ flight_res' = NoFlightRes
    /\ flight_info' = <<>>
    /\ sent' = EmptyText
    /\ response' = NoResponse
    /\ calls' = <<>>
    /\ ui' = <<>>
    /\ pdf_lines' = <<>>
    /\ idx' = 0
    /\ y' = 0
    /\ pages' = 0
    /\ code' = FALSE
    /\ drawn' = <<>>
    /\ earlier' = (earlier \/ itinerary_text # EmptyText)
    /\ UNCHANGED itinerary_text

Next ==
    \/ ScriptStart
    \/ Rerun
    \/ ButtonNotPressed
    \/ MissingGroqKey
    \/ GeocodeCall
    \/ ForecastCall
    \/ MockFlightsStep
    \/ FlightCall
    \/ BuildPrompt
    \/ InvokeModel
    \/ PdfGateClosed
    \/ PdfGateOpen
    \/ CreatePdfBegin
    \/ DrawLine
    \/ PdfSave
    \/ DownloadButton

Spec == Init /\ [][Next]_vars

\* create_pdf alone, on every text of PdfTexts
InitPdf ==
    /\ pc = "create_pdf"
    /\ groq_api_key = NoKey
    /\ amadeus_api_key = NoKey
    /\ destination = EmptyText
    /\ days = MinDays
    /\ budget = "Medium"
    /\ interests = DefaultInterests
    /\ pressed = FALSE
    /\ itinerary_text \in PdfTexts
    /\ geo_res = NoGeo
    /\ coords = FALSE
    /\ weather_res = NoForecast
    /\ weather_info = EmptyText
    /\ flight_res = NoFlightRes
    /\ flight_info = <<>>
    /\ sent = EmptyText
    /\ response = NoResponse
    /\ calls = <<>>
    /\ ui = <<>>
    /\ pdf_lines = <<>>
    /\ idx = 0
    /\ y = 0
    /\ pages = 0
    /\ code = FALSE
    /\ drawn = <<>>
    /\ earlier = FALSE

NextPdf ==
    \/ CreatePdfBegin
    \/ DrawLine
    \/ PdfSave

SpecPdf == InitPdf /\ [][NextPdf]_vars

----------------------------------------------------------------------------
(* Properties of the script run, checked under Spec *)

Kinds == {ui[i].kind : i \in 1..Len(ui)}
Apis == {calls[i].api : i \in 1..Len(calls)}
CallCount(api) == Cardinality({i \in 1..Len(calls) : calls[i].api = api})
ItineraryShown == "subheader" \in Kinds \/ "write" \in Kinds
DownloadOffered == "download" \in Kinds
PdfStarted ==
    pc \in {"create_pdf", "pdf_loop", "pdf_saved"} \/ pdf_lines # <<>>
    \/ drawn # <<>> \/ pages > 0
RunOver == pc = "done"
\* the run went past get_flight_options
FlightsDone ==
    /\ pressed
    /\ ~GroqKeyMissing(groq_api_key)
    /\ pc \in {"prompt", "invoke", "pdf_gate", "create_pdf", "pdf_loop",
               "pdf_saved", "done"}

\* C1: in a run where the button is pressed and the Groq key is empty, no
\* request of any kind is issued (no geocoding, forecast, flight or model
\* call), nothing is sent to the model, no itinerary is shown, no PDF is
\* made or offered, and once the button block is over the page shows the
\* missing-key error and nothing else
C1_MissingKeyBlocksRun ==
    (pc # "idle" /\ pressed /\ groq_api_key = NoKey) =>
        /\ calls = <<>>
        /\ sent = EmptyText
        /\ ~ItineraryShown
        /\ ~DownloadOffered
        /\ ~PdfStarted
        /\ pc \in {"button", "pdf_gate", "done"}
        /\ pc # "button" => ui = <<KeyErrorElement>>

C1_Witness ==
    /\ RunOver
    /\ pressed
    /\ groq_api_key = NoKey
    /\ ui = <<KeyErrorElement>>
    /\ calls = <<>>

\* C5: when the model call raised, the page shows the error message and no
\* itinerary, no PDF is rendered, no download is offered, the run's text
\* stays empty, and the model was called exactly once; in no run is the
\* model called twice
C5_ModelFailureEndsRun ==
    /\ CallCount("model") <= 1
    /\ response.raised =>
          /\ CallCount("model") = 1
          /\ pc \in {"pdf_gate", "done"}
          /\ ui = <<ErrorElement(response.msg)>>
          /\ ~ItineraryShown
          /\ ~DownloadOffered
          /\ ~PdfStarted
          /\ itinerary_text = EmptyText

C5_Witness ==
    /\ RunOver
    /\ response.raised
    /\ CallCount("model") = 1
    /\ ui = <<ErrorElement(response.msg)>>

\* C7: with no flight credential (None or the empty string), for every
\* destination, get_flight_options returns exactly two strings, each holding
\* the uppercased destination and the marker "(Mock)", and the run issues no
\* flight request
IsMockPair(flights, dest) ==
    /\ Len(flights) = 2
    /\ \A i \in 1..2 :
          /\ Contains(flights[i], Upper(dest))
          /\ Contains(flights[i], MockMarker)

C7_MockWithoutCredential ==
    /\ pc = "flights" =>
          \A k \in {None, EmptyText} :
             IsMockPair(get_flight_options(destination, k, flight_res),
                        destination)
    /\ (FlightsDone /\ NoCredential(amadeus_api_key)) =>
          /\ IsMockPair(flight_info, destination)
          /\ "flights" \notin Apis

C7_Witness ==
    /\ FlightsDone
    /\ amadeus_api_key = EmptyText
    /\ destination = <<"z">>
    /\ IsMockPair(flight_info, destination)
    /\ Contains(flight_info[1], <<"Z">>)
    /\ "flights" \notin Apis

\* C10: every run starts with the text empty; a PDF is made or offered, and
\* an itinerary is shown, only in a run where the button was pressed, the
\* Groq key was present and the model call of that same run returned the
\* text (non-empty for the PDF); so the text of an earlier run is never
\* shown or exported by a later one
C10_RunsAreIndependent ==
    /\ pc = "button" => itinerary_text = EmptyText
    /\ (PdfStarted \/ DownloadOffered) =>
          /\ pressed
          /\ groq_api_key # NoKey
          /\ CallCount("model") = 1
          /\ ~response.raised
          /\ response.content # EmptyText
          /\ itinerary_text = response.content
    /\ ItineraryShown =>
          /\ pressed
          /\ groq_api_key # NoKey
          /\ CallCount("model") = 1
          /\ ~response.raised
          /\ \A i \in 1..Len(ui) :
                ui[i].kind = "write" => ui[i].text = response.content
    /\ (pc \in {"pdf_gate", "done"} /\ CallCount("model") = 0) =>
          itinerary_text = EmptyText

\* a later run, button not pressed, after a run that produced a text
C10_Witness ==
    /\ RunOver
    /\ earlier
    /\ ~pressed
    /\ ~DownloadOffered
    /\ ~ItineraryShown
    /\ itinerary_text = EmptyText

\* C2: whenever the button is pressed with a Groq key, whatever the three
\* HTTP calls answer, the run reaches the model call.  Stated for the
\* destinations without braces, where only the tool data can stand in the
\* way
BraceFree(s) == \A i \in 1..Len(s) : ~IsBrace(s[i])

C2_ToolFailureNeverAborts ==
    (RunOver /\ pressed /\ ~GroqKeyMissing(groq_api_key)
        /\ BraceFree(destination)) => CallCount("model") = 1

\* C3: when the geocoding answer has no match (no "results" key, or an empty
\* "results" array), get_weather returns a string holding the destination
GeoNoMatch(res) ==
    ~res.raised /\ (~HasResults(res) \/ Len(res.results) = 0)

C3_NoMatchNamesDestination ==
    ("geocoding" \in Apis /\ GeoNoMatch(geo_res)) =>
        Contains(weather_info, destination)

\* C4: with a flight credential, when the answer holds no offers (no "data"
\* key, or an empty "data" array), get_flight_options returns exactly one
\* element, the no-flights notice
NoOffers(res) == ~res.raised /\ (~HasData(res) \/ Len(res.data) = 0)

C4_NoOffersOneElement ==
    ("flights" \in Apis /\ NoOffers(flight_res)) =>
        (Len(flight_info) = 1 /\ flight_info = NoFlightsFound)

\* C6: the human message sent to the model holds the weather string and
\* every flight string verbatim, the weather string before the flight
\* strings
C6_PromptVerbatim ==
    "model" \in Apis =>
        /\ Contains(sent, weather_info)
        /\ \A i \in 1..Len(flight_info) : Contains(sent, flight_info[i])
        /\ \E i \in 1..(Len(sent) + 1) :
              /\ SubSeq(sent, i, i + Len(weather_info) - 1) = weather_info
              /\ Contains(SubSeq(sent, i + Len(weather_info), Len(sent)),
                          FlightsText(flight_info))

----------------------------------------------------------------------------
(* Properties of create_pdf, checked under SpecPdf *)

\* lines that fit between the top cursor position and the bottom margin
LinesPerPage == ((TopOfPage - BottomMargin) \div Pitch) + 1

Saved == pc = "pdf_saved"

\* C8: a text with more lines than fit on one page gives a document of more
\* than one page, and the text of 60 short lines gives exactly 2 pages
C8_Pagination ==
    Saved =>
        /\ Len(pdf_lines) > LinesPerPage => pages >= 2
        /\ itinerary_text = ShortLines(60) =>
              (Len(pdf_lines) = 60 /\ pages = 2)

C8_Witness ==
    /\ Saved
    /\ itinerary_text = ShortLines(60)
    /\ Len(pdf_lines) = 60
    /\ pages = 2

\* C9: every line is drawn with the cursor inside the margins; the first
\* line of the text is drawn at the top position; after a line whose
\* successor position would lie below the bottom margin the next line is
\* drawn on the next page at the top position, and otherwise on the same
\* page exactly one pitch lower; line k of the text is the k-th line drawn
C9_CursorInsideMargins ==
    /\ Len(drawn) = idx
    /\ \A i \in 1..Len(drawn) :
          /\ drawn[i].line = i
          /\ BottomMargin <= drawn[i].y
          /\ drawn[i].y <= PageHeight - TopMargin
    /\ Len(drawn) > 0 => (drawn[1].y = PageHeight - TopMargin /\ drawn[1].page = 1)
    /\ \A i \in 1..(Len(drawn) - 1) :
          IF drawn[i].y - Pitch < BottomMargin
          THEN /\ drawn[i + 1].page = drawn[i].page + 1
               /\ drawn[i + 1].y = PageHeight - TopMargin
          ELSE /\ drawn[i + 1].page = drawn[i].page
               /\ drawn[i + 1].y = drawn[i].y - Pitch
    /\ Saved => Len(drawn) = Len(pdf_lines)

\* a line drawn on a second page, right after the last line of the first
C9_Witness ==
    \E i \in 1..(Len(drawn) - 1) :
        /\ drawn[i].page = 1
        /\ drawn[i].y - Pitch < BottomMargin
        /\ drawn[i + 1].page = 2
        /\ drawn[i + 1].y = PageHeight - TopMargin

====
